---- MODULE Spec2Model ----
(***************************************************************************)
(* Model of generate_diagrams.py: the TerraformDiagramGenerator class and  *)
(* main().  The state is the filesystem under the project root (the        *)
(* environment directories, the diagrams directory and its files), the     *)
(* command line, the position of main() and of the method it is running,   *)
(* the locals of the running method, and a log of the external processes   *)
(* started and of the file operations done.                                *)
(***************************************************************************)
EXTENDS Integers, Sequences, FiniteSets, TLC

VARIABLES
    command,              \* args.command
    environment,          \* args.environment
    port,                 \* args.port
    pc,                   \* position of main() / of the running method
    exitStatus,           \* <<>> while running, <<n>> once exited with status n
    versionQuery,         \* outcome of "<tool> --version" per required tool
    envs,                 \* per registry key: directory, main.tf and tfplan present
    diagramsDir,          \* <project-root>/diagrams exists
    diagrams,             \* content of each <display-name>.svg / .dot
    metadata_file,        \* content of diagrams/metadata.json
    idx,                  \* position of the loop of generate_all_diagrams
    successful_diagrams,  \* the success list
    frame,                \* locals of generate_environment_diagram / serve_interactive
    result,               \* last return value of generate_environment_diagram / serve_interactive
    pending,              \* exception being propagated
    out,                  \* console lines printed by the last step
    events                \* external processes started and file operations done

vars == <<command, environment, port, pc, exitStatus, versionQuery, envs,
          diagramsDir, diagrams, metadata_file, idx, successful_diagrams,
          frame, result, pending, out, events>>

----------------------------------------------------------------------------
(* Bounds *)

\* at most this many files left over from earlier runs exist at start
MaxStale == 1

\* the files left over belong to the first StaleEnvs entries of the registry
StaleEnvs == 1

----------------------------------------------------------------------------
(* __init__: the registry *)

EnvOrder == <<"us-west-1/dev", "us-west-1/staging", "us-west-1/prod", "us-west-2/dev">>

Keys == {EnvOrder[i] : i \in 1..Len(EnvOrder)}

environments ==
    [k \in Keys |->
        CASE k = "us-west-1/dev" ->
                [name |-> "dev-us-west-1",
                 description |-> "Development environment in us-west-1",
                 color |-> "#3498db"]
          [] k = "us-west-1/staging" ->
                [name |-> "staging-us-west-1",
                 description |-> "Staging environment in us-west-1",
                 color |-> "#f39c12"]
          [] k = "us-west-1/prod" ->
                [name |-> "prod-us-west-1",
                 description |-> "Production environment in us-west-1",
                 color |-> "#e74c3c"]
          [] OTHER ->
                [name |-> "dev-us-west-2",
                 description |-> "Development environment in us-west-2",
                 color |-> "#2ecc71"]]

\* faulty variant: the file is named after the last part of the key, which two
\* entries of the registry share
SvgNameByStage(k) ==
    IF k \in {"us-west-1/dev", "us-west-2/dev"} THEN "dev-us-west-1.svg"
    ELSE environments[k].name \o ".svg"

SvgName(k) == environments[k].name \o ".svg"
DotName(k) == environments[k].name \o ".dot"
MetadataName == "metadata.json"
PlanName == "tfplan"

DiagramFiles == {SvgName(k) : k \in Keys} \cup {DotName(k) : k \in Keys}

required_tools == <<"terraform", "blast-radius", "dot">>

DefaultPort == 5000

----------------------------------------------------------------------------
(* Values *)

NotExited == <<>>
Exited(n) == <<n>>
UnknownKey == "eu-west-1/dev"     \* a key that is not in the registry
NoEnvironment == ""               \* --environment omitted
Ports == {DefaultPort, 8080}

ProcOutcomes == {"ok", "nonzero", "exception"}

\* the call of the method that is processing an environment: its key and how each
\* step it has run so far ended ("none": not run yet)
NoFrame == [key |-> "", init |-> "none", plan |-> "none", svg |-> "none",
            dot |-> "none", server |-> "none", cleanup |-> "none"]

Flag(b) == IF b THEN "ok" ELSE "failed"

Event(kind, what, where) == [kind |-> kind, what |-> what, where |-> where]

Writes(what) == {i \in 1..Len(events) : events[i].kind = "write" /\ events[i].what = what}

\* faulty variant: the port given on the command line is not passed on
ServeCmdDefaultPort(p) == "blast-radius --serve --port " \o ToString(DefaultPort)

\* the command line of the server: ["blast-radius", "--serve", "--port", str(port)]
ServeCmd(p) == "blast-radius --serve --port " \o ToString(p)

----------------------------------------------------------------------------
(* The methods' decisions, as operators over their inputs *)

\* one run of "<tool> --version" succeeded (check=True raises on a non-zero exit)
VersionOk(o) == o = "ok"

\* check_prerequisites: the tools are queried in order, the first failure returns
\* False; q is the outcome each query would have
FirstFailure(q) ==
    IF \A i \in 1..Len(required_tools) : VersionOk(q[required_tools[i]])
    THEN 0
    ELSE CHOOSE i \in 1..Len(required_tools) :
            /\ ~VersionOk(q[required_tools[i]])
            /\ \A j \in 1..(i-1) : VersionOk(q[required_tools[j]])

\* faulty variant: the loop over required_tools stops one tool short
PrereqIgnoresLastTool(q) == FirstFailure(q) \in {0, Len(required_tools)}

check_prerequisites(q) == FirstFailure(q) = 0

\* the queries check_prerequisites has run: those after the first failure are not run
QueriesRun(q) ==
    [t \in DOMAIN q |->
        LET i == CHOOSE j \in 1..Len(required_tools) : required_tools[j] = t
        IN IF FirstFailure(q) = 0 \/ i <= FirstFailure(q) THEN q[t] ELSE "unrun"]

\* faulty variant: the check for main.tf is left out
EnvValidDirOnly(e) == e.dir

\* generate_environment_diagram: directory exists and holds main.tf
EnvValid(e) == e.dir /\ e.main_tf

\* init_terraform: returncode == 0, False on an exception
init_terraform(o) == o = "ok"

\* terraform plan -out=tfplan writes the plan file when it succeeds
PlanWrites(e, o) == IF o = "ok" THEN [e EXCEPT !.tfplan = TRUE] ELSE e

\* generate_svg_diagram / generate_dot_diagram: returncode == 0 and the write done
VisualizerOk(o) == o = "ok"

\* faulty variant: the file is opened for writing before the visualizer's exit
\* status is known, which leaves it empty on a failure
WriteTextOpensFirst(content, o) == IF VisualizerOk(o) THEN "new" ELSE "empty"

\* output_file.write_text(result.stdout), only on returncode == 0
WriteText(content, o) == IF VisualizerOk(o) THEN "new" ELSE content

\* faulty variant: the unlink is left out
CleanupKeepsPlan(e) == e

\* cleanup_temp_files: unlink tfplan if it exists
cleanup_temp_files(e) == IF e.tfplan THEN [e EXCEPT !.tfplan = FALSE] ELSE e

\* faulty variant: a textual-graph failure fails the environment
EnvironmentResultNeedsDot(f) == f.svg = "ok" /\ f.dot = "ok"

\* faulty variant: an init failure fails the environment
EnvironmentResultNeedsInit(f) == f.svg = "ok" /\ f.init = "ok"

\* generate_environment_diagram: the value returned after cleanup is svg_success
EnvironmentResult(f) == f.svg = "ok"

\* faulty variant: the display name is appended whatever was returned
AccumulateAlways(list, res, k) == Append(list, environments[k].name)

\* generate_all_diagrams: the success list after one environment
Accumulate(list, res, k) == IF res THEN Append(list, environments[k].name) ELSE list

InList(name, list) == \E i \in 1..Len(list) : list[i] = name

Null == "null"

\* faulty variant: the existence check is left out
DotFileFieldAlwaysName(k, files) == DotName(k)

\* generate_metadata: dot_file.name if dot_file.exists() else None
DotFileField(k, files) == IF files[DotName(k)] # "absent" THEN DotName(k) ELSE Null

ManifestRecord(k, files) ==
    [name |-> environments[k].name,
     description |-> environments[k].description,
     environment_path |-> k,
     svg_file |-> SvgName(k),
     dot_file |-> DotFileField(k, files),
     color |-> environments[k].color]

\* generate_metadata: the records of the registry entries i..Len(EnvOrder) whose
\* name is in the success list, in registry order
RECURSIVE ManifestFrom(_, _, _)
ManifestFrom(i, list, files) ==
    IF i > Len(EnvOrder) THEN <<>>
    ELSE IF InList(environments[EnvOrder[i]].name, list)
         THEN <<ManifestRecord(EnvOrder[i], files)>> \o ManifestFrom(i + 1, list, files)
         ELSE ManifestFrom(i + 1, list, files)

\* faulty variant: the test against the success list is left out
ManifestOfRegistry(list, files) ==
    ManifestFrom(1, [i \in 1..Len(EnvOrder) |-> environments[EnvOrder[i]].name], files)

ManifestDiagrams(list, files) == ManifestFrom(1, list, files)

NoManifest == [state |-> "absent", diagrams |-> <<>>]
OldManifest == [state |-> "old", diagrams |-> <<>>]

----------------------------------------------------------------------------
(* Initial states: a command line and a project tree *)

Layouts == {"absent", "dir", "valid"}

EnvOf(layout, plan) ==
    [dir |-> layout # "absent", main_tf |-> layout = "valid", tfplan |-> plan]

\* files an earlier run may have left: a plan file, a diagram, the manifest
Leftovers ==
    LET stale == {EnvOrder[i] : i \in 1..StaleEnvs} \cap Keys
    IN {<<PlanName, k>> : k \in stale}
        \cup {<<SvgName(k), "diagrams">> : k \in stale}
        \cup {<<DotName(k), "diagrams">> : k \in stale}
        \cup {<<MetadataName, "diagrams">>}

InitTree(layout, stale) ==
    /\ \A k \in Keys : <<PlanName, k>> \in stale => layout[k] # "absent"
    /\ envs = [k \in Keys |-> EnvOf(layout[k], <<PlanName, k>> \in stale)]
    /\ diagramsDir \in {b \in BOOLEAN : (\E s \in stale : s[2] = "diagrams") => b}
    /\ diagrams = [f \in DiagramFiles |->
                        IF <<f, "diagrams">> \in stale THEN "old" ELSE "absent"]
    /\ metadata_file = IF <<MetadataName, "diagrams">> \in stale
                       THEN OldManifest ELSE NoManifest

InitLocals ==
    /\ pc = "main"
    /\ exitStatus = NotExited
    /\ versionQuery = [t \in {required_tools[i] : i \in 1..Len(required_tools)} |-> "unrun"]
    /\ idx = 1
    /\ successful_diagrams = <<>>
    /\ frame = NoFrame
    /\ result = FALSE
    /\ pending = "none"
    /\ out = <<>>
    /\ events = <<>>

InitGenerate ==
    /\ command = "generate"
    /\ environment = NoEnvironment
    /\ port = DefaultPort
    /\ \E stale \in {s \in SUBSET Leftovers : Cardinality(s) <= MaxStale} :
       \E layout \in [Keys -> Layouts] : InitTree(layout, stale)

\* serve reads the directory of the environment it is given and no other
InitServe ==
    /\ command = "serve"
    /\ environment \in Keys \cup {UnknownKey, NoEnvironment}
    /\ port \in Ports
    /\ \E stale \in {s \in SUBSET Leftovers : Cardinality(s) <= MaxStale} :
       \E served \in Layouts :
          InitTree([k \in Keys |-> IF k = environment THEN served ELSE "valid"], stale)

Init == InitLocals /\ (InitGenerate \/ InitServe)

----------------------------------------------------------------------------
(* main: prerequisite check and dispatch *)

VersionEvents(q) ==
    [i \in 1..(IF FirstFailure(q) = 0 THEN Len(required_tools) ELSE FirstFailure(q)) |->
        Event("run", required_tools[i] \o " --version", ".")]

MainCheck ==
    /\ pc = "main"
    /\ \E q \in [DOMAIN versionQuery -> {"ok", "error", "notfound"}] :
        /\ versionQuery' = QueriesRun(q)
        /\ events' = events \o VersionEvents(q)
        /\ IF check_prerequisites(q)
           THEN /\ pc' = IF command = "generate" THEN "gen_validate" ELSE "main_serve"
                /\ exitStatus' = exitStatus
                /\ out' = <<"All prerequisites are installed">>
           ELSE /\ pc' = "exit"
                /\ exitStatus' = Exited(1)
                /\ out' = <<"ERROR: tool is not installed or not in PATH",
                            "Installation guide:">>
    /\ UNCHANGED <<command, environment, port, envs, diagramsDir, diagrams,
                   metadata_file, idx, successful_diagrams, frame, result, pending>>

----------------------------------------------------------------------------
(* generate: generate_all_diagrams, generate_environment_diagram, generate_metadata *)

GenValidate ==
    /\ pc = "gen_validate"
    /\ LET k == EnvOrder[idx] IN
        /\ frame' = [NoFrame EXCEPT !.key = k]
        /\ IF EnvValid(envs[k])
           THEN /\ diagramsDir' = TRUE
                /\ events' = Append(events, Event("mkdir", "diagrams", "."))
                /\ out' = <<"Generating diagram">>
                /\ result' = result
                /\ pc' = "gen_init"
           ELSE /\ out' = IF ~envs[k].dir
                          THEN <<"WARNING: Environment does not exist, skipping...">>
                          ELSE <<"WARNING: No main.tf found, skipping...">>
                /\ result' = FALSE
                /\ pc' = "gen_return"
                /\ UNCHANGED <<diagramsDir, events>>
    /\ UNCHANGED <<command, environment, port, exitStatus, versionQuery, envs,
                   diagrams, metadata_file, idx, successful_diagrams, pending>>

GenInit ==
    /\ pc = "gen_init"
    /\ \E o \in ProcOutcomes :
        /\ events' = Append(events, Event("run", "terraform init", frame.key))
        /\ frame' = [frame EXCEPT !.init = Flag(o = "ok")]
        /\ out' = (IF o = "exception"
                   THEN <<"ERROR: Failed to initialize Terraform">> ELSE <<>>)
                  \o (IF init_terraform(o)
                      THEN <<>> ELSE <<"WARNING: Terraform init failed, continuing anyway...">>)
    /\ pc' = "gen_plan"
    /\ UNCHANGED <<command, environment, port, exitStatus, versionQuery, envs,
                   diagramsDir, diagrams, metadata_file, idx, successful_diagrams,
                   result, pending>>

GenPlan ==
    /\ pc = "gen_plan"
    /\ \E o \in ProcOutcomes :
        /\ events' = Append(events, Event("run", "terraform plan", frame.key))
        /\ envs' = [envs EXCEPT ![frame.key] = PlanWrites(@, o)]
        /\ frame' = [frame EXCEPT !.plan = Flag(o = "ok")]
        /\ out' = IF o = "exception"
                  THEN <<"WARNING: Terraform plan failed (continuing anyway)">> ELSE <<>>
    /\ pc' = "gen_svg"
    /\ UNCHANGED <<command, environment, port, exitStatus, versionQuery,
                   diagramsDir, diagrams, metadata_file, idx, successful_diagrams,
                   result, pending>>

\* one visualizer mode of generate_environment_diagram: run it in the environment's
\* directory and write its output to file when it exited with 0
Visualize(mode, file, o) ==
    /\ events' = events \o <<Event("run", "blast-radius --" \o mode, frame.key)>>
                        \o (IF VisualizerOk(o)
                            THEN <<Event("write", file, "diagrams")>> ELSE <<>>)
    /\ diagrams' = [diagrams EXCEPT ![file] = WriteText(@, o)]

\* faulty variant: a failed vector diagram ends the environment's steps early, the
\* textual graph is not attempted
GenSvgStopsOnFailure ==
    /\ pc = "gen_svg"
    /\ \E o \in ProcOutcomes :
        /\ Visualize("svg", SvgName(frame.key), o)
        /\ frame' = [frame EXCEPT !.svg = Flag(VisualizerOk(o))]
        /\ out' = IF o = "ok" THEN <<>> ELSE <<"ERROR: blast-radius failed">>
        /\ pc' = IF VisualizerOk(o) THEN "gen_dot" ELSE "gen_cleanup"
    /\ UNCHANGED <<command, environment, port, exitStatus, versionQuery, envs,
                   diagramsDir, metadata_file, idx, successful_diagrams, result, pending>>

GenSvg ==
    /\ pc = "gen_svg"
    /\ \E o \in ProcOutcomes :
        /\ Visualize("svg", SvgName(frame.key), o)
        /\ frame' = [frame EXCEPT !.svg = Flag(VisualizerOk(o))]
        /\ out' = IF o = "ok" THEN <<>>
                  ELSE IF o = "nonzero" THEN <<"ERROR: blast-radius failed">>
                  ELSE <<"ERROR: Failed to generate diagram">>
    /\ pc' = "gen_dot"
    /\ UNCHANGED <<command, environment, port, exitStatus, versionQuery, envs,
                   diagramsDir, metadata_file, idx, successful_diagrams, result, pending>>

GenDot ==
    /\ pc = "gen_dot"
    /\ \E o \in ProcOutcomes :
        /\ Visualize("dot", DotName(frame.key), o)
        /\ frame' = [frame EXCEPT !.dot = Flag(VisualizerOk(o))]
    /\ out' = <<>>
    /\ pc' = "gen_cleanup"
    /\ UNCHANGED <<command, environment, port, exitStatus, versionQuery, envs,
                   diagramsDir, metadata_file, idx, successful_diagrams, result, pending>>

\* cleanup_temp_files on the directory of key k
Cleanup(k) ==
    /\ envs' = [envs EXCEPT ![k] = cleanup_temp_files(@)]
    /\ events' = Append(events, Event("call", "cleanup_temp_files", k))
    /\ frame' = [frame EXCEPT !.cleanup = IF envs'[k] # envs[k]
                                          THEN "unlinked" ELSE "nothing"]

GenCleanup ==
    /\ pc = "gen_cleanup"
    /\ Cleanup(frame.key)
    /\ result' = EnvironmentResult(frame)
    /\ out' = IF result' THEN <<"Generated">> ELSE <<"ERROR: Failed to generate diagram for">>
    /\ pc' = "gen_return"
    /\ UNCHANGED <<command, environment, port, exitStatus, versionQuery, diagramsDir,
                   diagrams, metadata_file, idx, successful_diagrams, pending>>

\* generate_all_diagrams: the loop takes the returned value and goes on
GenReturn ==
    /\ pc = "gen_return"
    /\ successful_diagrams' = Accumulate(successful_diagrams, result, frame.key)
    /\ idx' = idx + 1
    /\ frame' = NoFrame
    /\ result' = FALSE
    /\ out' = <<>>
    /\ pc' = IF idx = Len(EnvOrder) THEN "gen_metadata" ELSE "gen_validate"
    /\ UNCHANGED <<command, environment, port, exitStatus, versionQuery, envs,
                   diagramsDir, diagrams, metadata_file, pending, events>>

\* generate_metadata, then the end of main; write_text raises FileNotFoundError
\* when the diagrams directory does not exist, and nothing catches it
GenMetadata ==
    /\ pc = "gen_metadata"
    /\ IF diagramsDir
       THEN /\ metadata_file' = [state |-> "new",
                                 diagrams |-> ManifestDiagrams(successful_diagrams, diagrams)]
            /\ events' = Append(events, Event("write", MetadataName, "diagrams"))
            /\ out' = <<"Generated metadata", "Successfully generated diagrams">>
            /\ pending' = pending
            /\ exitStatus' = Exited(0)
       ELSE /\ pending' = "FileNotFoundError"
            /\ out' = <<"Traceback">>
            /\ exitStatus' = Exited(1)
            /\ UNCHANGED <<metadata_file, events>>
    /\ pc' = "exit"
    /\ UNCHANGED <<command, environment, port, versionQuery, envs, diagramsDir,
                   diagrams, idx, successful_diagrams, frame, result>>

----------------------------------------------------------------------------
(* serve: main's argument check and serve_interactive *)

MainServe ==
    /\ pc = "main_serve"
    /\ IF environment = NoEnvironment
       THEN /\ out' = <<"ERROR: --environment is required for serve command">>
            /\ pc' = "exit"
            /\ exitStatus' = Exited(1)
       ELSE /\ out' = <<>>
            /\ pc' = "serve_validate"
            /\ exitStatus' = exitStatus
    /\ UNCHANGED <<command, environment, port, versionQuery, envs, diagramsDir,
                   diagrams, metadata_file, idx, successful_diagrams, frame, result,
                   pending, events>>

\* faulty variant: the directory of a registered key is not looked at
ServeAcceptsAnyRegistered(key, tree) == key \in Keys

\* serve_interactive: the key is registered and its directory exists
ServeAccepts(key, tree) == key \in Keys /\ tree[key].dir

\* the exit status of main once serve_interactive has returned the value r:
\* main does not read r and ends
StatusAfterServe(r) == 0

ServeValidate ==
    /\ pc = "serve_validate"
    /\ IF ServeAccepts(environment, envs)
       THEN /\ frame' = [NoFrame EXCEPT !.key = environment]
            /\ out' = <<"Starting blast-radius server", "Press Ctrl+C to stop the server">>
            /\ pc' = "serve_init"
            /\ UNCHANGED <<result, exitStatus>>
       ELSE /\ out' = IF environment \notin Keys
                      THEN <<"ERROR: Unknown environment">>
                      ELSE <<"ERROR: Environment directory not found">>
            /\ result' = FALSE
            /\ pc' = "exit"
            /\ exitStatus' = Exited(StatusAfterServe(FALSE))
            /\ frame' = frame
    /\ UNCHANGED <<command, environment, port, versionQuery, envs, diagramsDir,
                   diagrams, metadata_file, idx, successful_diagrams, pending, events>>

\* KeyboardInterrupt is no Exception: init_terraform and create_terraform_plan do
\* not catch it, and it reaches main outside the try of serve_interactive
Interrupted ==
    /\ pending' = "KeyboardInterrupt"
    /\ out' = <<"Traceback">>
    /\ pc' = "exit"
    /\ exitStatus' = Exited(130)

ServeInit ==
    /\ pc = "serve_init"
    /\ events' = Append(events, Event("run", "terraform init", frame.key))
    /\ \E o \in ProcOutcomes \cup {"interrupt"} :
        IF o = "interrupt"
        THEN /\ Interrupted
             /\ frame' = [frame EXCEPT !.init = o]
        ELSE /\ frame' = [frame EXCEPT !.init = Flag(o = "ok")]
             /\ out' = IF o = "exception"
                       THEN <<"ERROR: Failed to initialize Terraform">> ELSE <<>>
             /\ pc' = "serve_plan"
             /\ UNCHANGED <<pending, exitStatus>>
    /\ UNCHANGED <<command, environment, port, versionQuery, envs, diagramsDir,
                   diagrams, metadata_file, idx, successful_diagrams, result>>

ServePlan ==
    /\ pc = "serve_plan"
    /\ events' = Append(events, Event("run", "terraform plan", frame.key))
    /\ \E o \in ProcOutcomes \cup {"interrupt"} :
        IF o = "interrupt"
        THEN /\ Interrupted
             \* the planner may or may not have written the plan before it was stopped
             /\ \E w \in {"ok", "nonzero"} :
                    envs' = [envs EXCEPT ![frame.key] = PlanWrites(@, w)]
             /\ frame' = [frame EXCEPT !.plan = o]
        ELSE /\ envs' = [envs EXCEPT ![frame.key] = PlanWrites(@, o)]
             /\ frame' = [frame EXCEPT !.plan = Flag(o = "ok")]
             /\ out' = IF o = "exception"
                       THEN <<"WARNING: Terraform plan failed (continuing anyway)">>
                       ELSE <<>>
             /\ pc' = "serve_run"
             /\ UNCHANGED <<pending, exitStatus>>
    /\ UNCHANGED <<command, environment, port, versionQuery, diagramsDir,
                   diagrams, metadata_file, idx, successful_diagrams, result>>

\* the try block: the server runs until it exits, cannot be started, or the
\* operator interrupts it; only KeyboardInterrupt is caught
ServeRun ==
    /\ pc = "serve_run"
    /\ events' = Append(events, Event("run", ServeCmd(port), frame.key))
    /\ \E o \in ProcOutcomes \cup {"interrupt"} :
        /\ frame' = [frame EXCEPT !.server = o]
        /\ pending' = IF o = "exception" THEN "OSError" ELSE pending
        /\ out' = IF o = "interrupt" THEN <<"Server stopped">> ELSE <<>>
    /\ pc' = "serve_cleanup"
    /\ UNCHANGED <<command, environment, port, exitStatus, versionQuery, envs,
                   diagramsDir, diagrams, metadata_file, idx, successful_diagrams,
                   result>>

\* the finally block, then the return to main or the propagation of the exception
ServeCleanup ==
    /\ pc = "serve_cleanup"
    /\ Cleanup(frame.key)
    /\ out' = IF pending = "none" THEN <<>> ELSE <<"Traceback">>
    /\ pc' = "exit"
    /\ exitStatus' = IF pending = "none" THEN Exited(StatusAfterServe(TRUE)) ELSE Exited(1)
    /\ UNCHANGED <<command, environment, port, versionQuery, diagramsDir, diagrams,
                   metadata_file, idx, successful_diagrams, result, pending>>

----------------------------------------------------------------------------

Next ==
    \/ MainCheck
    \/ GenValidate
    \/ GenInit
    \/ GenPlan
    \/ GenSvg
    \/ GenDot
    \/ GenCleanup
    \/ GenReturn
    \/ GenMetadata
    \/ MainServe
    \/ ServeValidate
    \/ ServeInit
    \/ ServePlan
    \/ ServeRun
    \/ ServeCleanup

Spec == Init /\ [][Next]_vars

----------------------------------------------------------------------------
(* What the properties below read off the state *)

\* some version query failed: the tool was not found or exited with an error
PrereqFailed == \E t \in DOMAIN versionQuery : versionQuery[t] \in {"error", "notfound"}

\* the run got past the prerequisite check
PrereqPassed == \A t \in DOMAIN versionQuery : versionQuery[t] = "ok"

\* the directory of k exists and holds main.tf
WellFormed(k) == envs[k].dir /\ envs[k].main_tf

\* the generate command has ended
GenerateEnded == command = "generate" /\ PrereqPassed /\ pc = "exit"

\* the loop of generate_all_diagrams is over
BatchDone == command = "generate" /\ PrereqPassed /\ pc \in {"gen_metadata", "exit"}

\* the loop of generate_all_diagrams is past position i of the registry
Past(i) == command = "generate" /\ idx > i

BatchSteps == {"terraform init", "terraform plan", "blast-radius --svg", "blast-radius --dot"}

Logged(e) == \E i \in 1..Len(events) : events[i] = e

\* the visualizer ran for k in the given mode and its output was not written:
\* it exited with an error
VisualizerFailed(mode, k, file) ==
    /\ Logged(Event("run", "blast-radius --" \o mode, k))
    /\ ~Logged(Event("write", file, "diagrams"))

SvgFailed(k) == VisualizerFailed("svg", k, SvgName(k))
DotFailed(k) == VisualizerFailed("dot", k, DotName(k))

CleanedUp(k) == Logged(Event("call", "cleanup_temp_files", k))

ManifestNames == {metadata_file.diagrams[j].name : j \in 1..Len(metadata_file.diagrams)}

\* serve_interactive got past its validation
ServeValidated == command = "serve" /\ frame.key # ""

----------------------------------------------------------------------------
(* C1: when a prerequisite query fails, under generate and under serve alike, the
   process exits with status 1 and nothing else has happened: no environment was
   validated, no planner or visualizer process other than the version queries
   was started, and no diagram or manifest file was written. *)
C1_PrereqFailureIsFatal ==
    PrereqFailed =>
        /\ pc = "exit"
        /\ exitStatus = Exited(1)
        /\ idx = 1 /\ frame = NoFrame /\ successful_diagrams = <<>>
        /\ \A i \in 1..Len(events) :
                /\ events[i].kind = "run"
                /\ \E j \in 1..Len(required_tools) :
                        events[i].what = required_tools[j] \o " --version"
        /\ metadata_file.state # "new"
        /\ \A f \in DiagramFiles : diagrams[f] # "new"

\* the third tool is missing after the first two answered, under generate
C1_Witness ==
    /\ command = "generate"
    /\ versionQuery["terraform"] = "ok"
    /\ versionQuery["blast-radius"] = "ok"
    /\ versionQuery["dot"] = "notfound"
    /\ pc = "exit"

(* C2: when the prerequisite check has passed, generate ends with exit status 0
   whatever happened to the environments. *)
C2_GenerateExitsZero == GenerateEnded => exitStatus = Exited(0)

(* C3: serve given a key that is not registered, or a registered key whose
   directory does not exist, exits with status 1. *)
C3_ServeRejectionExitsOne ==
    (/\ command = "serve" /\ PrereqPassed /\ pc = "exit"
     /\ environment # NoEnvironment
     /\ (environment \notin Keys \/ ~envs[environment].dir))
        => exitStatus = Exited(1)

(* C4: once serve_interactive has passed validation, cleanup_temp_files has run
   by the time serve_interactive is left, however it is left. *)
C4_ServeAlwaysCleansUp ==
    (ServeValidated /\ pc = "exit") => CleanedUp(frame.key)

(* C5: in batch generation an environment whose directory is missing or has no
   main.tf is skipped: no process is started in it, its name is neither in the
   success list nor in the manifest; and the batch goes on: when the loop is over
   every well-formed environment has had its four steps run. *)
C5_InvalidEnvironmentsSkipped ==
    command = "generate" =>
        /\ \A i \in 1..Len(events) :
                events[i].where \in Keys => WellFormed(events[i].where)
        /\ \A k \in Keys : ~WellFormed(k) =>
                /\ ~InList(environments[k].name, successful_diagrams)
                /\ environments[k].name \notin ManifestNames
        /\ BatchDone =>
                /\ idx = Len(EnvOrder) + 1
                /\ \A k \in Keys : WellFormed(k) =>
                        \A c \in BatchSteps : Logged(Event("run", c, k))

\* the first entry has no main.tf, the second no directory; the third is processed
\* after them and is in the success list and in the manifest
C5_Witness ==
    /\ GenerateEnded
    /\ envs[EnvOrder[1]].dir /\ ~envs[EnvOrder[1]].main_tf
    /\ ~envs[EnvOrder[2]].dir
    /\ WellFormed(EnvOrder[3])
    /\ InList(environments[EnvOrder[3]].name, successful_diagrams)
    /\ metadata_file.state = "new"
    /\ ManifestNames = {environments[EnvOrder[3]].name}

(* C6: if the visualizer never failed in vector-diagram mode, the success list
   returned by generate_all_diagrams is as long as there are well-formed
   environments, whatever init, plan and the textual-graph mode did. *)
C6_SuccessCountIsValidCount ==
    (BatchDone /\ \A k \in Keys : ~SvgFailed(k)) =>
        Len(successful_diagrams) = Cardinality({k \in Keys : WellFormed(k)})

\* two well-formed environments and two others; the textual graph failed for one
C6_Witness ==
    /\ BatchDone
    /\ \A k \in Keys : ~SvgFailed(k)
    /\ Cardinality({k \in Keys : WellFormed(k)}) = 2
    /\ \E k \in Keys : DotFailed(k)
    /\ Len(successful_diagrams) = 2

(* C7: for a validated environment generate_environment_diagram returns False
   exactly when vector-diagram generation failed, and the environment is in the
   success list exactly when it did not fail; what init, plan and the
   textual-graph mode did does not count. *)
C7_FailureIffSvgFailed ==
    /\ (command = "generate" /\ pc = "gen_return" /\ WellFormed(frame.key)) =>
            (~result <=> SvgFailed(frame.key))
    /\ \A i \in 1..Len(EnvOrder) : (Past(i) /\ WellFormed(EnvOrder[i])) =>
            (InList(environments[EnvOrder[i]].name, successful_diagrams)
                <=> ~SvgFailed(EnvOrder[i]))

\* init, plan and the textual graph all failed and the environment succeeds
C7_Witness ==
    /\ command = "generate" /\ pc = "gen_return"
    /\ frame.init = "failed" /\ frame.plan = "failed" /\ frame.dot = "failed"
    /\ frame.svg = "ok"
    /\ result

(* C8: once batch generation has processed an environment (it was validated and
   its steps have run), with success or with failure, no tfplan is in its
   directory, also when one was there before the run; and cleanup raises nothing
   when there is no tfplan. *)
C8_PlanRemovedAfterProcessing ==
    /\ (command = "generate" /\ pc = "gen_return" /\ WellFormed(frame.key)) =>
            /\ ~envs[frame.key].tfplan
            /\ CleanedUp(frame.key)
            /\ pending = "none"
    /\ \A i \in 1..Len(EnvOrder) : (Past(i) /\ WellFormed(EnvOrder[i])) =>
            ~envs[EnvOrder[i]].tfplan

\* plan failed for the environment just processed, so the tfplan that cleanup
\* removed was there before the run; the environment's generation failed
C8_Witness ==
    /\ command = "generate" /\ pc = "gen_return"
    /\ frame.plan = "failed"
    /\ frame.cleanup = "unlinked"
    /\ ~envs[frame.key].tfplan
    /\ ~result

(* C9: in the manifest generate_metadata has written, dot_file of every entry is
   null exactly when <display-name>.dot does not exist in the diagrams directory,
   and is that file's name otherwise. *)
C9_DotFieldMatchesDisk ==
    metadata_file.state = "new" =>
        \A j \in 1..Len(metadata_file.diagrams) :
            LET r == metadata_file.diagrams[j]
                f == r.name \o ".dot"
            IN /\ f \in DiagramFiles
               /\ (r.dot_file = Null <=> diagrams[f] = "absent")
               /\ (r.dot_file # Null => r.dot_file = f)

\* one entry without a .dot file, one whose .dot file was written in this run, and
\* one whose .dot file is left from an earlier run
C9_Witness ==
    /\ metadata_file.state = "new"
    /\ \E a, b, c \in 1..Len(metadata_file.diagrams) :
        /\ metadata_file.diagrams[a].dot_file = Null
        /\ diagrams[metadata_file.diagrams[b].name \o ".dot"] = "new"
        /\ diagrams[metadata_file.diagrams[c].name \o ".dot"] = "old"

(* C10: in every generate run that passes the prerequisite check the manifest is
   written exactly once, after the loop over the registry is over, and replaces
   any earlier manifest. *)
C10_ManifestWrittenOnce ==
    /\ GenerateEnded =>
            /\ Cardinality(Writes(MetadataName)) = 1
            /\ metadata_file.state = "new"
    /\ (command = "generate" /\ pc # "exit") => Writes(MetadataName) = {}

\* serve was given a key that serve_interactive turns down, and has ended
ServeRejected ==
    /\ command = "serve" /\ PrereqPassed /\ pc = "exit"
    /\ environment # NoEnvironment
    /\ (environment \notin Keys \/ ~envs[environment].dir)

(* C11: when serve_interactive turns the key down (it is not registered, or its
   directory is missing) nothing but the version queries has been started: no
   terraform init or plan, no server; no diagram or manifest has been written,
   the diagrams directory has not been created by it and cleanup_temp_files has
   not been called, so no file has been removed. *)
C11_RejectedServeTouchesNothing ==
    ServeRejected =>
        /\ \A i \in 1..Len(events) :
                /\ events[i].kind = "run"
                /\ events[i].where = "."
        /\ ~Logged(Event("run", ServeCmd(port), environment))
        /\ frame = NoFrame
        /\ metadata_file.state # "new"
        /\ \A f \in DiagramFiles : diagrams[f] # "new"

\* a registered key whose directory is missing, while a plan file left in another
\* environment's directory by an earlier run is still there
C11_Witness ==
    /\ ServeRejected
    /\ environment \in Keys
    /\ out = <<"ERROR: Environment directory not found">>
    /\ \E k \in Keys : envs[k].tfplan

\* what was started in the directory of k, in the order it was started
StepsOf(k) == LET In(e) == e.where = k IN SelectSeq(events, In)

\* the five steps of generate_environment_diagram for k
StepsExpected(k) ==
    <<Event("run", "terraform init", k),
      Event("run", "terraform plan", k),
      Event("run", "blast-radius --svg", k),
      Event("run", "blast-radius --dot", k),
      Event("call", "cleanup_temp_files", k)>>

\* how many steps of the entry at idx are behind the current position
StepsBehind ==
    CASE pc = "gen_plan" -> 1
      [] pc = "gen_svg" -> 2
      [] pc = "gen_dot" -> 3
      [] pc = "gen_cleanup" -> 4
      [] pc = "gen_return" -> 5
      [] OTHER -> 0

RegistryPosition(k) == CHOOSE i \in 1..Len(EnvOrder) : EnvOrder[i] = k

(* C12: in batch generation what is started in the directory of a well-formed
   environment is, at every moment, an initial part of init, plan, vector diagram,
   textual graph, cleanup, each at most once and in that order, as long as the
   position in generate_environment_diagram says, whatever the earlier steps
   did; it is all five once the loop is past the entry, and nothing before the
   loop reaches the entry, so every step of one entry is over when the next
   entry is validated and nothing is run twice. Nothing is started in the
   directory of an entry that is not well-formed. *)
C12_StepsOnceInOrder ==
    command = "generate" =>
        /\ \A i \in 1..Len(EnvOrder) :
            LET k == EnvOrder[i] IN
            StepsOf(k) = SubSeq(StepsExpected(k), 1,
                                IF ~WellFormed(k) \/ i > idx THEN 0
                                ELSE IF i < idx THEN Len(StepsExpected(k))
                                ELSE StepsBehind)
        /\ \A n \in 1..(Len(events) - 1) :
            (events[n].where \in Keys /\ events[n + 1].where \in Keys) =>
                RegistryPosition(events[n].where) <= RegistryPosition(events[n + 1].where)

\* init, plan, the vector diagram and the textual graph all failed for the second
\* well-formed entry, and all five steps have run for it and for the one before
C12_Witness ==
    /\ command = "generate" /\ pc = "gen_return"
    /\ frame.init = "failed" /\ frame.plan = "failed"
    /\ frame.svg = "failed" /\ frame.dot = "failed"
    /\ StepsOf(frame.key) = StepsExpected(frame.key)
    /\ \E i \in 1..(idx - 1) : StepsOf(EnvOrder[i]) = StepsExpected(EnvOrder[i])

\* the positions of the manifest's records that carry the display name of k
RecordsOf(k) ==
    {j \in 1..Len(metadata_file.diagrams) :
        metadata_file.diagrams[j].name = environments[k].name}

(* C13: the diagrams list of the manifest generate_metadata has written holds
   exactly one record for each registered environment whose display name is in
   the success list and none for any other; the records follow the order of the
   registry; each record carries the name, description, key and color of its own
   registry entry and svg_file is <display-name>.svg. *)
C13_ManifestRecordsSuccessList ==
    metadata_file.state = "new" =>
        LET d == metadata_file.diagrams IN
        /\ \A k \in Keys :
            Cardinality(RecordsOf(k)) =
                IF \E n \in 1..Len(successful_diagrams) :
                        successful_diagrams[n] = environments[k].name
                THEN 1 ELSE 0
        /\ \A j \in 1..Len(d) :
            /\ d[j].environment_path \in Keys
            /\ d[j].name = environments[d[j].environment_path].name
            /\ d[j].description = environments[d[j].environment_path].description
            /\ d[j].color = environments[d[j].environment_path].color
            /\ d[j].svg_file = d[j].name \o ".svg"
        /\ \A a, b \in 1..Len(d) :
            a < b => RegistryPosition(d[a].environment_path)
                        < RegistryPosition(d[b].environment_path)

\* the first and the third entry succeeded; the second one is well-formed and its
\* vector diagram failed, so it has no record between the two
C13_Witness ==
    /\ metadata_file.state = "new"
    /\ Len(metadata_file.diagrams) = 2
    /\ metadata_file.diagrams[1].environment_path = EnvOrder[1]
    /\ metadata_file.diagrams[2].environment_path = EnvOrder[3]
    /\ WellFormed(EnvOrder[2])
    /\ SvgFailed(EnvOrder[2])

(* C14: after a generate run in which the textual graph failed for an environment
   of the success list, no <display-name>.dot of it is in the diagrams directory
   and dot_file of its manifest record is null, also when such a file was there
   before the run. *)
C14_DotOmittedAfterFailure ==
    metadata_file.state = "new" =>
        \A k \in Keys :
            (InList(environments[k].name, successful_diagrams) /\ DotFailed(k)) =>
                /\ diagrams[DotName(k)] = "absent"
                /\ \A j \in RecordsOf(k) : metadata_file.diagrams[j].dot_file = Null

PlannerWarnings ==
    {"WARNING: Terraform init failed, continuing anyway...",
     "WARNING: Terraform plan failed (continuing anyway)"}

\* the step that has just run printed a warning about the planner
PlannerWarned == \E i \in 1..Len(out) : out[i] \in PlannerWarnings

(* C15: whenever terraform init or terraform plan has failed, in batch generation
   or under serve, a warning has been printed for it when the next step is
   reached. *)
C15_PlannerFailureWarned ==
    /\ (pc \in {"gen_plan", "serve_plan"} /\ frame.init = "failed") => PlannerWarned
    /\ (pc \in {"gen_svg", "serve_run"} /\ frame.plan = "failed") => PlannerWarned

\* the steps of serve_interactive after its validation
ServeStepsExpected ==
    <<Event("run", "terraform init", environment),
      Event("run", "terraform plan", environment),
      Event("run", "blast-radius --serve --port " \o ToString(port), environment),
      Event("call", "cleanup_temp_files", environment)>>

\* how many steps of serve_interactive are behind the current position
ServeStepsBehind ==
    CASE pc = "serve_plan" -> 1
      [] pc = "serve_run" -> 2
      [] pc = "serve_cleanup" -> 3
      [] pc = "exit" /\ frame.init = "interrupt" -> 1
      [] pc = "exit" /\ frame.plan = "interrupt" -> 2
      [] pc = "exit" /\ frame.key # "" -> 4
      [] OTHER -> 0

(* C16, unconditionally: every serve that passed validation has, when it ends,
   run init, plan, the server with the given port and cleanup, once each and in
   this order. *)
C16_ServeLaunchesServer ==
    (ServeValidated /\ pc = "exit") => StepsOf(environment) = ServeStepsExpected

(* C16: what serve_interactive starts in the environment's directory after its
   validation is, at every moment, an initial part of init, plan, the server with
   the port given on the command line, cleanup, each at most once and in that
   order, as long as the position in serve_interactive says. When init and plan
   were not interrupted by the operator, whatever their results, the server is
   launched and cleanup follows the end of the server's run; when the operator
   interrupts init or plan, serve ends there and no server is launched. *)
C16_ServeStepsInOrder ==
    command = "serve" =>
        /\ StepsOf(environment) = SubSeq(ServeStepsExpected, 1, ServeStepsBehind)
        /\ (ServeValidated /\ pc = "exit" /\ "interrupt" \notin {frame.init, frame.plan}) =>
                /\ StepsOf(environment) = ServeStepsExpected
                /\ frame.server # "none"

\* init and plan failed, the server was launched on the other port and ran until
\* the operator stopped it, then cleanup ran
C16_Witness ==
    /\ ServeValidated /\ pc = "exit"
    /\ frame.init = "failed" /\ frame.plan = "failed"
    /\ port # DefaultPort
    /\ frame.server = "interrupt"
    /\ StepsOf(environment) = ServeStepsExpected

\* generate_environment_diagram is at work on the entry at idx
GenPositions ==
    {"gen_validate", "gen_init", "gen_plan", "gen_svg", "gen_dot", "gen_cleanup", "gen_return"}

(* C17: in batch generation no step taken for one registry entry changes the plan
   file, the .svg or the .dot of another entry: they are not written, not
   overwritten and not removed; and the .svg and .dot names of two different
   entries are different names. *)
C17_NoCrossEnvironmentWrites ==
    [][(command = "generate" /\ pc \in GenPositions) =>
            \A j \in Keys \ {EnvOrder[idx]} :
                /\ envs'[j] = envs[j]
                /\ diagrams'[SvgName(j)] = diagrams[SvgName(j)]
                /\ diagrams'[DotName(j)] = diagrams[DotName(j)]
                /\ {SvgName(j), DotName(j)} \cap {SvgName(EnvOrder[idx]), DotName(EnvOrder[idx])} = {}
      ]_vars

\* the second entry has been processed, both diagrams written and its plan file
\* removed, and the plan file an earlier run left in the first entry's directory
\* is still there
C17_Witness ==
    /\ command = "generate" /\ pc = "gen_return" /\ idx = 2
    /\ frame.svg = "ok" /\ frame.dot = "ok" /\ frame.cleanup = "unlinked"
    /\ envs[EnvOrder[1]].tfplan
    /\ diagrams[SvgName(EnvOrder[1])] = "absent"

(* C18: when the visualizer fails in vector-diagram or textual-graph mode, the
   file it would have written, <display-name>.svg or <display-name>.dot, is the
   same after the step as before it: not created, not emptied, not removed, and a
   file from an earlier run keeps its content. *)
C18_FailedVisualizerLeavesFile ==
    [][/\ (pc = "gen_svg" /\ frame'.svg = "failed") =>
            diagrams'[SvgName(frame.key)] = diagrams[SvgName(frame.key)]
       /\ (pc = "gen_dot" /\ frame'.dot = "failed") =>
            diagrams'[DotName(frame.key)] = diagrams[DotName(frame.key)]
      ]_vars

\* both modes failed: the .svg of an earlier run is still the old one and no .dot
\* has come into being
C18_Witness ==
    /\ command = "generate" /\ pc = "gen_cleanup"
    /\ frame.svg = "failed" /\ frame.dot = "failed"
    /\ diagrams[SvgName(frame.key)] = "old"
    /\ diagrams[DotName(frame.key)] = "absent"

(* C19: every display name in the success list, at any moment of a generate run,
   has its <display-name>.svg in the diagrams directory with the content the
   vector-diagram step of this run wrote; so when generate_metadata writes the
   manifest, svg_file of every record names such a file. *)
C19_ManifestSvgWrittenThisRun ==
    command = "generate" =>
        /\ \A n \in 1..Len(successful_diagrams) :
            LET f == successful_diagrams[n] \o ".svg" IN
            /\ f \in DiagramFiles
            /\ diagrams[f] = "new"
            /\ Logged(Event("write", f, "diagrams"))
        /\ metadata_file.state = "new" =>
            \A j \in 1..Len(metadata_file.diagrams) :
                LET f == metadata_file.diagrams[j].svg_file IN
                /\ f \in DiagramFiles
                /\ diagrams[f] = "new"
                /\ Logged(Event("write", f, "diagrams"))

\* the manifest has two records; the .svg an earlier run left for the first entry
\* is still there, the vector diagram failed for it in this run, and it has no
\* record
C19_Witness ==
    /\ metadata_file.state = "new"
    /\ Len(metadata_file.diagrams) = 2
    /\ WellFormed(EnvOrder[1])
    /\ SvgFailed(EnvOrder[1])
    /\ diagrams[SvgName(EnvOrder[1])] = "old"
    /\ RecordsOf(EnvOrder[1]) = {}

====
